---- MODULE Spec2Model ----
(***************************************************************************)
(* Model of gdrive-backup.py: the one-directional mirror of a remote drive *)
(* to local disk with a versioned ledger (sqlite tables files/folders).    *)
(* The program is sequential; it is modelled as a call stack of frames,    *)
(* one action per step of each function, with the remote service's         *)
(* answers (success, HttpError, transient errors) chosen by the            *)
(* environment at every attempt of a remote call.                          *)
(*                                                                         *)
(* Spec runs the program repeatedly against a plain drive, SpecIrregular   *)
(* once against a drive with files of one name, paged subfolder listings   *)
(* and items that lack fields, SpecLive is the latter without kills and    *)
(* with fairness of the program's steps, and SpecPaths applies the path    *)
(* naming of download_and_save_file to names and versions on their own.    *)
(***************************************************************************)
EXTENDS Integers, Sequences, FiniteSets, TLC

(***************************************************************************)
(* Bounds of the model.                                                    *)
(***************************************************************************)
MaxScans == 3          \* runs of main() against the same backup directory
MaxTime == 2           \* remote modifiedTime values are 1..MaxTime
MaxIrregularScans == 1 \* runs of main() against the irregular drive
MaxProbeVersion == 11  \* versions 1..MaxProbeVersion are given to the path naming

(***************************************************************************)
(* The remote drive: a fixed hierarchy.  Names are sequences of characters.*)
(***************************************************************************)
Folders == {"root", "A", "B", "C"}
Files == {"f1", "f2", "f3", "f4"}
\* the files whose content the remote user edits between runs
Modifiable == {"f1"}
Times == 1..MaxTime

FolderName(d) ==
    CASE d = "root" -> <<"M", "y">>
      [] d = "A" -> <<"A">>
      [] d = "B" -> <<"b", ":">>
      [] OTHER -> <<"C">>

\* the answer of files().list for the subfolders of d, in listing order
SubfolderList(d) ==
    CASE d = "root" -> <<"A", "B">>
      [] d = "A" -> <<"C">>
      [] OTHER -> <<>>

\* the answer of files().list for the files of d, in listing order
FileList(d) ==
    CASE d = "root" -> <<"f1", "f2">>
      [] d = "A" -> <<"f3">>
      [] d = "B" -> <<"f4">>
      [] OTHER -> <<>>

FileParent(f) ==
    CASE f \in {"f1", "f2"} -> "root"
      [] f = "f3" -> "A"
      [] OTHER -> "B"

FolderParent(d) ==
    CASE d = "root" -> "none"
      [] d = "C" -> "A"
      [] OTHER -> "root"

FileName(f) ==
    CASE f = "f1" -> <<"a", ".", "t">>
      [] f = "f2" -> <<"n">>
      [] f = "f3" -> <<"S">>
      [] OTHER -> <<"q">>

\* mimeType of a file: a binary file (f1), a Google spreadsheet, which is
\* exported (f3), and Google forms, application/vnd.google-apps.* types
\* without an export mapping (f2, f4)
MimeType(f) ==
    CASE f = "f1" -> "bin"
      [] f = "f3" -> "gsheet"
      [] OTHER -> "gform"

(***************************************************************************)
(* String helpers.                                                         *)
(***************************************************************************)
InvalidChars == {"<", ">", ":", "\"", "/", "\\", "|", "?", "*"}

sanitize_filename(filename) ==
    [i \in 1..Len(filename) |->
        IF filename[i] \in InvalidChars THEN "_" ELSE filename[i]]

PathJoin(a, b) ==
    IF Len(b) > 0 /\ b[1] = "/" THEN b
    ELSE IF Len(a) = 0 \/ a[Len(a)] = "/" THEN a \o b
    ELSE a \o <<"/">> \o b

LastIndexOf(s, c) ==
    LET I == {i \in 1..Len(s) : s[i] = c}
    IN IF I = {} THEN 0 ELSE CHOOSE i \in I : \A j \in I : j <= i

\* os.path.splitext: the extension starts at the last dot of the last
\* path component, unless only dots precede it in that component
SplitExtIndex(p) ==
    LET sep == LastIndexOf(p, "/")
        dot == LastIndexOf(p, ".")
    IN IF dot > sep /\ (\E k \in (sep + 1)..(dot - 1) : p[k] # ".")
       THEN dot ELSE Len(p) + 1

SplitBase(p) == SubSeq(p, 1, SplitExtIndex(p) - 1)
SplitExt(p) == SubSeq(p, SplitExtIndex(p), Len(p))

DigitChars == <<"0", "1", "2", "3", "4", "5", "6", "7", "8", "9">>

RECURSIVE Decimal(_)
Decimal(n) ==
    IF n < 10 THEN <<DigitChars[n + 1]>>
    ELSE Decimal(n \div 10) \o <<DigitChars[(n % 10) + 1]>>

\* f"{version:02d}"
Format02d(n) == IF n < 10 THEN <<"0">> \o Decimal(n) ELSE Decimal(n)

\* variant: the version is appended after the extension
VersionAfterExtension(base_path, filename, version) ==
    IF version > 1
    THEN PathJoin(base_path, filename \o <<".", "v">> \o Format02d(version))
    ELSE PathJoin(base_path, filename)

get_file_path(base_path, filename, version) ==
    IF version > 1
    THEN PathJoin(base_path,
                  SplitBase(filename) \o <<".", "v">> \o Format02d(version)
                      \o SplitExt(filename))
    ELSE PathJoin(base_path, filename)

IsGoogleApps(mime) == mime \in {"gdoc", "gsheet", "gslides", "gdrawing", "gform"}

\* the export extension chosen by convert_google_file; <<>> when unsupported
ExportExtension(mime) ==
    CASE mime = "gdoc" -> <<".", "d", "o", "c", "x">>
      [] mime = "gsheet" -> <<".", "x", "l", "s", "x">>
      [] mime = "gslides" -> <<".", "p", "p", "t", "x">>
      [] mime = "gdrawing" -> <<".", "p", "n", "g">>
      [] OTHER -> <<>>

BackupDir == <<"b", "k">>

(***************************************************************************)
(* The ledger (table files, PRIMARY KEY (id, version)).                    *)
(***************************************************************************)
RowsOf(rows, id) == {r \in rows : r.id = id}

\* SELECT MAX(version) FROM files WHERE id = ?   (0 stands for NULL)
MaxVersion(rows, id) ==
    LET V == {r.version : r \in RowsOf(rows, id)}
    IN IF V = {} THEN 0 ELSE CHOOSE v \in V : \A w \in V : w <= v

\* variant: a version number is left out
NextVersionSkipping(rows, id) == MaxVersion(rows, id) + 2

get_next_version_number(rows, id) == MaxVersion(rows, id) + 1

HasRow(rows, id) == RowsOf(rows, id) # {}

\* variant: ORDER BY version ASC
LatestByFirstVersion(rows, id) ==
    CHOOSE r \in RowsOf(rows, id) : \A q \in RowsOf(rows, id) : r.version <= q.version

\* SELECT modifiedTime, localPath ... ORDER BY version DESC LIMIT 1
LatestRow(rows, id) ==
    CHOOSE r \in RowsOf(rows, id) : r.version = MaxVersion(rows, id)

\* variants of the comparison: never equal; equal to any stored version
NeverUnchanged(rows, id, modified_time) == FALSE

UnchangedAgainstAnyVersion(rows, id, modified_time) ==
    \E r \in RowsOf(rows, id) : r.modifiedTime = modified_time

\* lines 394-398: a stored latest row with the same modifiedTime
IsUnchanged(rows, id, modified_time) ==
    HasRow(rows, id) /\ LatestRow(rows, id).modifiedTime = modified_time

(***************************************************************************)
(* The retry wrapper (tenacity) around make_api_request, download_file and *)
(* create_folder_structure.                                                *)
(***************************************************************************)
StopAfterAttempt == 3

Outcomes == {"ok", "http", "timeout", "connerr"}

\* the exception an attempt's outcome raises
ExcOf(out) ==
    CASE out = "http" -> "HttpError"
      [] out = "timeout" -> "TimeoutError"
      [] out = "connerr" -> "RequestException"
      [] OTHER -> "none"

\* variant: googleapiclient's HttpError among the retried types
RetryableWithHttp(e) == e \in {"RequestException", "TimeoutError", "HttpError"}

\* retry_if_exception_type((RequestException, HTTPError, TimeoutError)):
\* requests' HTTPError is a RequestException; googleapiclient's HttpError is not
Retryable(e) == e \in {"RequestException", "TimeoutError"}

\* variant: reraise=True, the last attempt's exception leaves the wrapper
ReraiseLast(e) == e

\* stop reached without reraise=True: tenacity raises RetryError
ExhaustedError(e) == "RetryError"

\* what the wrapper does after a failed attempt
RetryDecision(attempt, e) ==
    IF ~Retryable(e) THEN "raise"
    ELSE IF attempt >= StopAfterAttempt THEN "exhausted"
    ELSE "sleep"

RaisedBy(attempt, e) ==
    IF RetryDecision(attempt, e) = "exhausted" THEN ExhaustedError(e) ELSE e

(***************************************************************************)
(* State.                                                                  *)
(***************************************************************************)
VARIABLES
    stack,        \* call stack, innermost frame last
    raised,       \* the exception being propagated, "none" when there is none
    status,       \* "idle", "running", "completed", "failed", "killed"
    connOpen,     \* the sqlite connection opened by init_database is open
    ledger,       \* table files
    folders,      \* table folders
    dirs,         \* local directories that exist
    written,      \* local files written to completion
    mtime,        \* remote modifiedTime of every file
    scans,        \* number of runs of main() started
    touched,      \* a remote file was modified since the last run started
    last,         \* the last attempt of a retry-wrapped remote call
    seen,         \* per file, what download_and_save_file met in this run
    folderFail,   \* folders whose metadata fetch or listing failed in this run
    ledger0,      \* table files when this run started
    prevScan,     \* whether the previous run returned normally with no folder
                  \* request failed, and whether the remote is as it was then
    drive,        \* what the remote drive holds: "plain" or "irregular"
    exitStatus,   \* exit status of the process, -1 while it has not exited
    upserted,     \* folders whose FolderRecord was upserted in this run
    probe,        \* input and result of one application of the path naming
    badEntry      \* the folder whose subfolder listing had an entry without
                  \* a field in this run, "none" when there was none

vars == <<stack, raised, status, connOpen, ledger, folders, dirs, written, mtime,
          scans, touched, last, seen, folderFail, ledger0, prevScan, drive,
          exitStatus, upserted, probe, badEntry>>

Frame(fn, arg, pc, path) ==
    [fn |-> fn, arg |-> arg, pc |-> pc, idx |-> 0, pend |-> 0, attempt |-> 1,
     path |-> path, ver |-> 0]

Top == stack[Len(stack)]
Pop == SubSeq(stack, 1, Len(stack) - 1)
SetTop(f) == [stack EXCEPT ![Len(stack)] = f]
Call(caller, callee) == Append(SetTop(caller), callee)

Running(fn) == status = "running" /\ Len(stack) > 0 /\ Top.fn = fn
Normal(fn) == Running(fn) /\ raised = "none"
Raising(fn) == Running(fn) /\ raised # "none"

NoCall == [site |-> <<>>, n |-> 0, out |-> "none", afterOk |-> FALSE,
           afterHttp |-> FALSE, act |-> "none", err |-> "none"]

\* the record of one more attempt at call site `site`
Attempted(site, out, act, err) ==
    [site |-> site,
     n |-> IF last.site = site THEN last.n + 1 ELSE 1,
     out |-> out,
     \* the same call was attempted again after it succeeded / after an HttpError
     afterOk |-> last.site = site /\ (last.out = "ok" \/ last.afterOk),
     afterHttp |-> last.site = site /\ (last.out = "http" \/ last.afterHttp),
     act |-> act,
     err |-> err]

NotSeen == [f \in Files |-> "no"]

\* the number of runs of main() against the drive
MaxRuns == IF drive = "irregular" THEN MaxIrregularScans ELSE MaxScans

NoProbe == [name |-> <<>>, version |-> 0, mime |-> "none", path |-> <<>>,
            row |-> [version |-> 0, localPath |-> <<>>]]

(***************************************************************************)
(* What the remote reports.  On a plain drive the subfolders of a folder   *)
(* come in one page, every item carries every requested field and names    *)
(* are distinct.  On an irregular drive f2 is a second binary file of the  *)
(* name of f1 in the same folder, f3 has a name with a reserved character  *)
(* and is listed without "parents", the subfolder listings are split into  *)
(* pages, and an item can come without one of its fields.                  *)
(***************************************************************************)
ListedName(f) ==
    IF drive = "irregular" /\ f = "f2" THEN FileName("f1")
    ELSE IF drive = "irregular" /\ f = "f3" THEN <<"S", ":">>
    ELSE FileName(f)

ListedMimeType(f) ==
    IF drive = "irregular" /\ f = "f2" THEN MimeType("f1") ELSE MimeType(f)

\* "parents" in file, line 439
HasParents(f) == ~(drive = "irregular" /\ f = "f3")

\* whether a listed item carries the fields the code subscripts
\* (lines 248, 251, 355, 359, 378-381)
ItemShapes == IF drive = "irregular" THEN BOOLEAN ELSE {TRUE}

\* files().list of the files from item `from` of n (lines 324-332): the page
\* ends at an item of the remote's choosing and carries a nextPageToken
\* unless it ends at the last item
FilePageEnds(from, n) == IF from > n THEN {n} ELSE from..n

\* files().list of the subfolders (lines 241-244, 345-352): the first page
\* holds the entries up to one of the remote's choosing
SubfolderPageEnds(n) == IF drive = "irregular" THEN 0..n ELSE {n}

\* variant: the request is repeated with the page token it was first given
FirstPageToken(frame) == 1

\* page_token = results.get("nextPageToken"), line 339
NextPageToken(frame) == frame.pend + 1

InitOn(d) ==
    /\ stack = <<>>
    /\ raised = "none"
    /\ status = "idle"
    /\ connOpen = FALSE
    /\ ledger = {}
    /\ folders = {}
    /\ dirs = {}
    /\ written = {}
    /\ mtime = [f \in Files |-> 1]
    /\ scans = 0
    /\ touched = FALSE
    /\ last = NoCall
    /\ seen = NotSeen
    /\ folderFail = {}
    /\ ledger0 = {}
    /\ prevScan = [completed |-> FALSE, same |-> FALSE]
    /\ drive = d
    /\ exitStatus = -1
    /\ upserted = {}
    /\ badEntry = "none"

Init == InitOn("plain") /\ probe = NoProbe

(***************************************************************************)
(* Environment: the remote changes between runs; the process can be        *)
(* interrupted at any step.                                                *)
(***************************************************************************)
RemoteModify(f, t) ==
    /\ status # "running"
    /\ scans \in 1..(MaxScans - 1)
    /\ ~touched
    /\ t # mtime[f]
    /\ mtime' = [mtime EXCEPT ![f] = t]
    /\ touched' = TRUE
    /\ UNCHANGED <<stack, raised, status, connOpen, ledger, folders, dirs, written,
                   scans, last, seen, folderFail, ledger0, prevScan,
                   drive, exitStatus, upserted, probe, badEntry>>

\* the process is killed while a file is being fetched, written or recorded
Interrupt ==
    /\ status = "running"
    /\ Len(stack) > 0
    /\ Top.fn \in {"download_and_save_file", "download_file"}
    /\ status' = "killed"
    /\ UNCHANGED <<stack, raised, connOpen, ledger, folders, dirs, written, mtime,
                   scans, touched, last, seen, folderFail, ledger0, prevScan,
                   drive, exitStatus, upserted, probe, badEntry>>

(***************************************************************************)
(* main and backup_drive.                                                  *)
(***************************************************************************)
Main ==
    /\ status # "running"
    /\ scans < MaxRuns
    /\ stack' = <<Frame("main", "none", "except", <<>>),
                  Frame("backup_drive", "none", "init", BackupDir)>>
    /\ raised' = "none"
    /\ status' = "running"
    /\ connOpen' = FALSE
    /\ scans' = scans + 1
    /\ touched' = FALSE
    /\ last' = NoCall
    /\ seen' = NotSeen
    /\ folderFail' = {}
    /\ ledger0' = ledger
    /\ prevScan' = [completed |-> status = "completed" /\ folderFail = {},
                    same |-> ~touched]
    /\ exitStatus' = -1
    /\ upserted' = {}
    /\ badEntry' = "none"
    /\ UNCHANGED <<ledger, folders, dirs, written, mtime, drive, probe>>

\* lines 451-454: authenticate, build, get_db_path, init_database
BackupDrive_Init ==
    /\ Normal("backup_drive") /\ Top.pc = "init"
    /\ connOpen' = TRUE
    /\ dirs' = dirs \cup {BackupDir, PathJoin(BackupDir, <<"_", "_", "d", "b", "_", "_">>)}
    /\ stack' = SetTop([Top EXCEPT !.pc = "try"])
    /\ UNCHANGED <<raised, status, ledger, folders, written, mtime, scans, touched,
                   last, seen, folderFail, ledger0, prevScan,
                   drive, exitStatus, upserted, probe, badEntry>>

\* variant: conn.close() is the last statement of the try block
CloseAtEndOfTry(exc) == exc # "none"

\* lines 459-460: finally: conn.close(), whatever the try block raised;
\* the value is whether the connection is open afterwards
ConnAfterTry(exc) == FALSE

\* lines 456-458
BackupDrive_Try ==
    /\ Normal("backup_drive") /\ Top.pc = "try"
    /\ \E made \in BOOLEAN :
         IF made
         THEN /\ dirs' = dirs \cup {BackupDir}
              /\ stack' = Call([Top EXCEPT !.pc = "finally"],
                               Frame("process_folder", "root", "start", BackupDir))
              /\ raised' = "none"
         ELSE \* os.makedirs raises OSError
              /\ dirs' = dirs
              /\ stack' = SetTop([Top EXCEPT !.pc = "finally"])
              /\ raised' = "OSError"
    /\ UNCHANGED <<status, connOpen, ledger, folders, written, mtime, scans,
                   touched, last, seen, folderFail, ledger0, prevScan,
                   drive, exitStatus, upserted, probe, badEntry>>

\* lines 459-460, on return and on exception alike
BackupDrive_Finally ==
    /\ Running("backup_drive") /\ Top.pc = "finally"
    /\ connOpen' = ConnAfterTry(raised)
    /\ stack' = Pop
    /\ UNCHANGED <<raised, status, ledger, folders, dirs, written, mtime, scans,
                   touched, last, seen, folderFail, ledger0, prevScan,
                   drive, exitStatus, upserted, probe, badEntry>>

\* lines 513-521: the handler of main logs and falls off the end of main,
\* so the command exits with status 0 whatever backup_drive raised
ExitStatusOf(exc) == 0

\* lines 513-516: except Exception logs; main returns either way
Main_Return ==
    /\ Running("main")
    /\ stack' = <<>>
    /\ raised' = "none"
    /\ status' = IF raised = "none" THEN "completed" ELSE "failed"
    /\ exitStatus' = ExitStatusOf(raised)
    /\ UNCHANGED <<connOpen, ledger, folders, dirs, written, mtime, scans, touched,
                   last, seen, folderFail, ledger0, prevScan,
                   drive, upserted, probe, badEntry>>

(***************************************************************************)
(* The retry-wrapped remote calls: one action per attempt.                 *)
(***************************************************************************)
\* lines 74-96: one attempt of request_func(...).execute() and the decision
\* of the wrapper; the frame's arg is the folder, its pc the request
MakeApiRequest(out) ==
    /\ Normal("make_api_request")
    /\ LET e == ExcOf(out)
           d == IF out = "ok" THEN "return" ELSE RetryDecision(Top.attempt, e)
           site == <<Top.arg, Top.pc>>
       IN /\ stack' = IF d = "sleep"
                      THEN SetTop([Top EXCEPT !.attempt = Top.attempt + 1])
                      ELSE Pop
          /\ raised' = IF d \in {"raise", "exhausted"}
                       THEN RaisedBy(Top.attempt, e) ELSE "none"
          /\ last' = Attempted(site, out, d,
                               IF d \in {"raise", "exhausted"}
                               THEN RaisedBy(Top.attempt, e) ELSE "none")
          /\ folderFail' = IF d \in {"raise", "exhausted"}
                           THEN folderFail \cup {Top.arg} ELSE folderFail
    /\ UNCHANGED <<status, connOpen, ledger, folders, dirs, written, mtime, scans,
                   touched, seen, ledger0, prevScan,
                   drive, exitStatus, upserted, probe, badEntry>>

\* lines 99-118: one attempt of the next_chunk loop and the decision of the
\* wrapper; the frame's arg is the file
DownloadFile(out) ==
    /\ Normal("download_file")
    /\ LET e == ExcOf(out)
           d == IF out = "ok" THEN "return" ELSE RetryDecision(Top.attempt, e)
           site == <<Top.arg, "media">>
       IN /\ stack' = IF d = "sleep"
                      THEN SetTop([Top EXCEPT !.attempt = Top.attempt + 1])
                      ELSE Pop
          /\ raised' = IF d \in {"raise", "exhausted"}
                       THEN RaisedBy(Top.attempt, e) ELSE "none"
          /\ last' = Attempted(site, out, d,
                               IF d \in {"raise", "exhausted"}
                               THEN RaisedBy(Top.attempt, e) ELSE "none")
          /\ seen' = [seen EXCEPT ![Top.arg] =
                         CASE d = "return" -> "ok"
                           [] d = "raise" -> "http"
                           [] d = "exhausted" -> "exhausted"
                           [] OTHER -> @]
    /\ UNCHANGED <<status, connOpen, ledger, folders, dirs, written, mtime, scans,
                   touched, folderFail, ledger0, prevScan,
                   drive, exitStatus, upserted, probe, badEntry>>

(***************************************************************************)
(* create_folder_structure (lines 195-260), itself retry-wrapped.          *)
(***************************************************************************)
\* lines 211-217
CreateFolderStructure_Get ==
    /\ Normal("create_folder_structure") /\ Top.pc = "get"
    /\ stack' = Call([Top EXCEPT !.pc = "upsert"],
                     Frame("make_api_request", Top.arg, "get", <<>>))
    /\ UNCHANGED <<raised, status, connOpen, ledger, folders, dirs, written, mtime,
                   scans, touched, last, seen, folderFail, ledger0, prevScan,
                   drive, exitStatus, upserted, probe, badEntry>>

\* lines 218-243: mkdir, INSERT OR REPLACE INTO folders, commit, list subfolders
CreateFolderStructure_Upsert ==
    /\ Normal("create_folder_structure") /\ Top.pc = "upsert"
    /\ dirs' = dirs \cup {Top.path}
    /\ folders' = {r \in folders : r.id # Top.arg}
                    \cup {[id |-> Top.arg,
                           name |-> sanitize_filename(FolderName(Top.arg)),
                           parentId |-> FolderParent(Top.arg)]}
    /\ upserted' = upserted \cup {Top.arg}
    /\ \E e \in SubfolderPageEnds(Len(SubfolderList(Top.arg))) :
         stack' = Call([Top EXCEPT !.pc = "subs", !.idx = 1, !.pend = e],
                       Frame("make_api_request", Top.arg, "listsub", <<>>))
    /\ UNCHANGED <<raised, status, connOpen, ledger, written, mtime, scans, touched,
                   last, seen, folderFail, ledger0, prevScan,
                   drive, exitStatus, probe, badEntry>>

\* lines 247-252
CreateFolderStructure_Sub ==
    /\ Normal("create_folder_structure") /\ Top.pc = "subs"
    /\ Top.idx <= Top.pend
    /\ LET sub == SubfolderList(Top.arg)[Top.idx]
       IN \E complete \in ItemShapes :
            IF complete
            THEN /\ stack' = Call([Top EXCEPT !.idx = Top.idx + 1],
                                  Frame("create_folder_structure", sub, "get",
                                        PathJoin(Top.path,
                                                 sanitize_filename(FolderName(sub)))))
                 /\ raised' = "none"
                 /\ badEntry' = badEntry
            ELSE \* subfolder["name"] or subfolder["id"] raises KeyError
                 /\ stack' = SetTop([Top EXCEPT !.idx = Top.idx + 1])
                 /\ raised' = "KeyError"
                 /\ badEntry' = Top.arg
    /\ UNCHANGED <<status, connOpen, ledger, folders, dirs, written, mtime,
                   scans, touched, last, seen, folderFail, ledger0, prevScan,
                   drive, exitStatus, upserted, probe>>

\* line 254
CreateFolderStructure_Return ==
    /\ Normal("create_folder_structure") /\ Top.pc = "subs"
    /\ Top.idx > Top.pend
    /\ stack' = Pop
    /\ UNCHANGED <<raised, status, connOpen, ledger, folders, dirs, written, mtime,
                   scans, touched, last, seen, folderFail, ledger0, prevScan,
                   drive, exitStatus, upserted, probe, badEntry>>

\* lines 256-260 re-raise; then the wrapper of lines 195-207 decides
CreateFolderStructure_Except ==
    /\ Raising("create_folder_structure")
    /\ LET d == RetryDecision(Top.attempt, raised)
       IN /\ stack' = IF d = "sleep"
                      THEN SetTop([Top EXCEPT !.pc = "get", !.idx = 0, !.pend = 0,
                                              !.attempt = Top.attempt + 1])
                      ELSE Pop
          /\ raised' = IF d = "sleep" THEN "none" ELSE RaisedBy(Top.attempt, raised)
    /\ UNCHANGED <<status, connOpen, ledger, folders, dirs, written, mtime, scans,
                   touched, last, seen, folderFail, ledger0, prevScan,
                   drive, exitStatus, upserted, probe, badEntry>>

(***************************************************************************)
(* process_folder (lines 298-373).                                         *)
(***************************************************************************)
\* variant: the files are listed without create_folder_structure being called
StartWithoutStructure ==
    /\ Normal("process_folder") /\ Top.pc = "start"
    /\ stack' = SetTop([Top EXCEPT !.pc = "listfiles", !.idx = 1])
    /\ last' = NoCall
    /\ UNCHANGED <<raised, status, connOpen, ledger, folders, dirs, written, mtime,
                   scans, touched, seen, folderFail, ledger0, prevScan,
                   drive, exitStatus, upserted, probe, badEntry>>

\* lines 301-303 and 323: page_token = None
ProcessFolder_Start ==
    /\ Normal("process_folder") /\ Top.pc = "start"
    /\ stack' = Call([Top EXCEPT !.pc = "listfiles", !.idx = 1],
                     Frame("create_folder_structure", Top.arg, "get", Top.path))
    /\ last' = NoCall
    /\ UNCHANGED <<raised, status, connOpen, ledger, folders, dirs, written, mtime,
                   scans, touched, seen, folderFail, ledger0, prevScan,
                   drive, exitStatus, upserted, probe, badEntry>>

\* lines 304-333: folder_path is local_path, never empty; idx stands for
\* page_token, the page asked for begins at item idx and ends at item pend
ProcessFolder_ListFiles ==
    /\ Normal("process_folder") /\ Top.pc = "listfiles"
    /\ \E e \in FilePageEnds(Top.idx, Len(FileList(Top.arg))) :
         stack' = Call([Top EXCEPT !.pc = "files", !.pend = e],
                       Frame("make_api_request", Top.arg, "listfiles", <<>>))
    /\ last' = NoCall
    /\ UNCHANGED <<raised, status, connOpen, ledger, folders, dirs, written, mtime,
                   scans, touched, seen, folderFail, ledger0, prevScan,
                   drive, exitStatus, upserted, probe, badEntry>>

\* lines 336-337
ProcessFolder_File ==
    /\ Normal("process_folder") /\ Top.pc = "files"
    /\ Top.idx <= Top.pend
    /\ stack' = Call([Top EXCEPT !.idx = Top.idx + 1],
                     Frame("download_and_save_file", FileList(Top.arg)[Top.idx],
                           "check", Top.path))
    /\ last' = NoCall
    /\ UNCHANGED <<raised, status, connOpen, ledger, folders, dirs, written, mtime,
                   scans, touched, seen, folderFail, ledger0, prevScan,
                   drive, exitStatus, upserted, probe, badEntry>>

\* lines 339-341: the page came with a nextPageToken, the loop goes round
ProcessFolder_NextPage ==
    /\ Normal("process_folder") /\ Top.pc = "files"
    /\ Top.idx > Top.pend
    /\ Top.pend < Len(FileList(Top.arg))
    /\ stack' = SetTop([Top EXCEPT !.pc = "listfiles", !.idx = NextPageToken(Top)])
    /\ UNCHANGED <<raised, status, connOpen, ledger, folders, dirs, written, mtime,
                   scans, touched, last, seen, folderFail, ledger0, prevScan,
                   drive, exitStatus, upserted, probe, badEntry>>

\* lines 339-352: no nextPageToken; the subfolders are listed once
ProcessFolder_ListSub ==
    /\ Normal("process_folder") /\ Top.pc = "files"
    /\ Top.idx > Top.pend
    /\ Top.pend >= Len(FileList(Top.arg))
    /\ \E e \in SubfolderPageEnds(Len(SubfolderList(Top.arg))) :
         stack' = Call([Top EXCEPT !.pc = "subs", !.idx = 1, !.pend = e],
                       Frame("make_api_request", Top.arg, "listsub", <<>>))
    /\ last' = NoCall
    /\ UNCHANGED <<raised, status, connOpen, ledger, folders, dirs, written, mtime,
                   scans, touched, seen, folderFail, ledger0, prevScan,
                   drive, exitStatus, upserted, probe, badEntry>>

\* lines 354-365
ProcessFolder_Sub ==
    /\ Normal("process_folder") /\ Top.pc = "subs"
    /\ Top.idx <= Top.pend
    /\ LET sub == SubfolderList(Top.arg)[Top.idx]
       IN \E complete \in ItemShapes :
            IF complete
            THEN /\ stack' = Call([Top EXCEPT !.idx = Top.idx + 1],
                                  Frame("process_folder", sub, "start",
                                        PathJoin(Top.path,
                                                 sanitize_filename(FolderName(sub)))))
                 /\ raised' = "none"
                 /\ badEntry' = badEntry
            ELSE \* subfolder["name"] or subfolder["id"] raises KeyError
                 /\ stack' = SetTop([Top EXCEPT !.idx = Top.idx + 1])
                 /\ raised' = "KeyError"
                 /\ badEntry' = Top.arg
    /\ UNCHANGED <<status, connOpen, ledger, folders, dirs, written, mtime,
                   scans, touched, last, seen, folderFail, ledger0, prevScan,
                   drive, exitStatus, upserted, probe>>

ProcessFolder_Return ==
    /\ Normal("process_folder") /\ Top.pc = "subs"
    /\ Top.idx > Top.pend
    /\ stack' = Pop
    /\ UNCHANGED <<raised, status, connOpen, ledger, folders, dirs, written, mtime,
                   scans, touched, last, seen, folderFail, ledger0, prevScan,
                   drive, exitStatus, upserted, probe, badEntry>>

\* the local variable subfolder is bound once the loop of line 354 has begun
SubfolderBound(frame) == frame.pc = "subs" /\ frame.idx > 1

\* lines 367-373: what leaves process_folder when exc reaches its handlers.
\* HttpError is logged and swallowed; KeyError is logged and raised again,
\* and the log message reads subfolder, which raises UnboundLocalError when
\* the loop over the subfolders had not begun; anything else passes through
RaisedByHandlers(frame, exc) ==
    IF exc = "HttpError" THEN "none"
    ELSE IF exc = "KeyError" /\ ~SubfolderBound(frame) THEN "UnboundLocalError"
    ELSE exc

\* lines 367-373
ProcessFolder_Except ==
    /\ Raising("process_folder")
    /\ stack' = Pop
    /\ raised' = RaisedByHandlers(Top, raised)
    /\ UNCHANGED <<status, connOpen, ledger, folders, dirs, written, mtime, scans,
                   touched, last, seen, folderFail, ledger0, prevScan,
                   drive, exitStatus, upserted, probe, badEntry>>

(***************************************************************************)
(* download_and_save_file (lines 376-447) with convert_google_file         *)
(* (lines 153-192) inlined: both catch HttpError and give the file up.     *)
(***************************************************************************)
NewRow(f, version, path) ==
    [id |-> f, name |-> ListedName(f), mimeType |-> ListedMimeType(f),
     version |-> version,
     parentId |-> IF HasParents(f) THEN FileParent(f) ELSE "none",
     modifiedTime |-> mtime[f], localPath |-> path]

\* lines 378-417 up to the call of download_file
DownloadAndSaveFile_Check ==
    /\ Normal("download_and_save_file") /\ Top.pc = "check"
    /\ LET f == Top.arg
           new_version == get_next_version_number(ledger, f)
           filepath == get_file_path(Top.path, ListedName(f), new_version)
           unchanged == IsUnchanged(ledger, f, mtime[f])
           unsupported == /\ IsGoogleApps(ListedMimeType(f))
                          /\ ExportExtension(ListedMimeType(f)) = <<>>
       IN \E complete \in ItemShapes :
            IF complete
            THEN /\ stack' = IF unchanged \/ unsupported THEN Pop
                             ELSE Call([Top EXCEPT !.pc = "write", !.ver = new_version,
                                                   !.path = filepath],
                                       Frame("download_file", f, "chunks", <<>>))
                 /\ seen' = [seen EXCEPT ![f] = IF unchanged THEN "skip"
                                                ELSE IF unsupported THEN "unsup"
                                                ELSE "fetching"]
                 /\ raised' = "none"
            ELSE \* lines 378-381: a missing field raises KeyError
                 /\ stack' = stack
                 /\ seen' = [seen EXCEPT ![f] = "keyerror"]
                 /\ raised' = "KeyError"
    /\ last' = NoCall
    /\ UNCHANGED <<status, connOpen, ledger, folders, dirs, written, mtime,
                   scans, touched, folderFail, ledger0, prevScan,
                   drive, exitStatus, upserted, probe, badEntry>>

\* lines 181-188 and 419-423: the downloaded bytes are written to the path
DownloadAndSaveFile_Write ==
    /\ Normal("download_and_save_file") /\ Top.pc = "write"
    /\ LET filepath == Top.path \o ExportExtension(ListedMimeType(Top.arg))
       IN /\ written' = written \cup {filepath}
          /\ stack' = SetTop([Top EXCEPT !.pc = "insert", !.path = filepath])
    /\ dirs' = dirs \cup {SubSeq(Top.path, 1, LastIndexOf(Top.path, "/") - 1)}
    /\ UNCHANGED <<raised, status, connOpen, ledger, folders, mtime, scans, touched,
                   last, seen, folderFail, ledger0, prevScan,
                   drive, exitStatus, upserted, probe, badEntry>>

\* lines 428-444: INSERT INTO files, commit; a duplicate (id, version) raises
DownloadAndSaveFile_Insert ==
    /\ Normal("download_and_save_file") /\ Top.pc = "insert"
    /\ LET dup == \E r \in ledger : r.id = Top.arg /\ r.version = Top.ver
       IN /\ ledger' = IF dup THEN ledger
                       ELSE ledger \cup {NewRow(Top.arg, Top.ver, Top.path)}
          /\ raised' = IF dup THEN "IntegrityError" ELSE "none"
          /\ stack' = IF dup THEN stack ELSE Pop
    /\ UNCHANGED <<status, connOpen, folders, dirs, written, mtime, scans, touched,
                   last, seen, folderFail, ledger0, prevScan,
                   drive, exitStatus, upserted, probe, badEntry>>

\* variant: the HttpError is logged and the function goes on to write and insert
ResumeAfterHttpError ==
    /\ Raising("download_and_save_file")
    /\ stack' = IF raised = "HttpError" THEN stack ELSE Pop
    /\ raised' = IF raised = "HttpError" THEN "none" ELSE raised
    /\ UNCHANGED <<status, connOpen, ledger, folders, dirs, written, mtime, scans,
                   touched, last, seen, folderFail, ledger0, prevScan,
                   drive, exitStatus, upserted, probe, badEntry>>

\* lines 190-192 and 410-411, 446-447: HttpError ends this file only
DownloadAndSaveFile_Except ==
    /\ Raising("download_and_save_file")
    /\ stack' = Pop
    /\ raised' = IF raised = "HttpError" THEN "none" ELSE raised
    /\ UNCHANGED <<status, connOpen, ledger, folders, dirs, written, mtime, scans,
                   touched, last, seen, folderFail, ledger0, prevScan,
                   drive, exitStatus, upserted, probe, badEntry>>

(***************************************************************************)
(* Specification.                                                          *)
(***************************************************************************)
Next ==
    \/ \E f \in Modifiable, t \in Times : RemoteModify(f, t)
    \/ Interrupt
    \/ Main
    \/ BackupDrive_Init
    \/ BackupDrive_Try
    \/ BackupDrive_Finally
    \/ Main_Return
    \/ \E out \in Outcomes : MakeApiRequest(out)
    \/ \E out \in Outcomes : DownloadFile(out)
    \/ CreateFolderStructure_Get
    \/ CreateFolderStructure_Upsert
    \/ CreateFolderStructure_Sub
    \/ CreateFolderStructure_Return
    \/ CreateFolderStructure_Except
    \/ ProcessFolder_Start
    \/ ProcessFolder_ListFiles
    \/ ProcessFolder_File
    \/ ProcessFolder_NextPage
    \/ ProcessFolder_ListSub
    \/ ProcessFolder_Sub
    \/ ProcessFolder_Return
    \/ ProcessFolder_Except
    \/ DownloadAndSaveFile_Check
    \/ DownloadAndSaveFile_Write
    \/ DownloadAndSaveFile_Insert
    \/ DownloadAndSaveFile_Except

Spec == Init /\ [][Next]_vars

\* a step of the program: every action but those of the remote user, of the
\* signal that kills the process and of the user who starts a run
Step ==
    \/ BackupDrive_Init
    \/ BackupDrive_Try
    \/ BackupDrive_Finally
    \/ Main_Return
    \/ \E out \in Outcomes : MakeApiRequest(out)
    \/ \E out \in Outcomes : DownloadFile(out)
    \/ CreateFolderStructure_Get
    \/ CreateFolderStructure_Upsert
    \/ CreateFolderStructure_Sub
    \/ CreateFolderStructure_Return
    \/ CreateFolderStructure_Except
    \/ ProcessFolder_Start
    \/ ProcessFolder_ListFiles
    \/ ProcessFolder_File
    \/ ProcessFolder_NextPage
    \/ ProcessFolder_ListSub
    \/ ProcessFolder_Sub
    \/ ProcessFolder_Return
    \/ ProcessFolder_Except
    \/ DownloadAndSaveFile_Check
    \/ DownloadAndSaveFile_Write
    \/ DownloadAndSaveFile_Insert
    \/ DownloadAndSaveFile_Except

\* the same program against the irregular drive
SpecIrregular == InitOn("irregular") /\ probe = NoProbe /\ [][Next]_vars

\* runs that are not killed, in which no call hangs: the running program
\* always takes its next step, with whatever answer the remote gives
NextLive == Main \/ Step

SpecLive ==
    InitOn("irregular") /\ probe = NoProbe /\ [][NextLive]_vars /\ WF_vars(Step)

(***************************************************************************)
(* The path naming on its own: lines 392-444 of download_and_save_file     *)
(* with get_file_path and the export extension of convert_google_file,     *)
(* applied to a name, a mimeType and a new version drawn from bounded      *)
(* sets.                                                                   *)
(***************************************************************************)
ProbeNames ==
    { <<"S">>,                          \* no extension
      <<"r", ".", "d">>,                \* an extension
      <<"a", ".", "b", ".", "c">>,      \* two dots
      <<".", "b">>,                     \* a leading dot only
      <<".", ".", "a">>,
      <<"a", ".">>,                     \* a trailing dot
      <<"x", ".", "y", "/", "z">>,      \* a dot before a slash
      <<"v", "0", "2", ".", "t">> }

ProbeMimes == {"bin", "gdoc", "gsheet", "gslides", "gdrawing"}

ProbeInputs ==
    { [name |-> nm, version |-> n, mime |-> mt, path |-> <<>>,
       row |-> [version |-> 0, localPath |-> <<>>]] :
         nm \in ProbeNames, n \in 1..MaxProbeVersion, mt \in ProbeMimes }

InitPaths == InitOn("plain") /\ probe \in ProbeInputs

ApplyGetFilePath ==
    /\ probe.path = <<>>
    /\ LET new_version == probe.version
           filepath == get_file_path(BackupDir, probe.name, new_version)
                           \o ExportExtension(probe.mime)
       IN probe' = [probe EXCEPT !.path = filepath,
                                 !.row = [version |-> new_version,
                                          localPath |-> filepath]]
    /\ UNCHANGED <<stack, raised, status, connOpen, ledger, folders, dirs, written,
                   mtime, scans, touched, last, seen, folderFail, ledger0, prevScan,
                   drive, exitStatus, upserted, badEntry>>

SpecPaths == InitPaths /\ [][ApplyGetFilePath]_vars

(***************************************************************************)
(* Vocabulary of the properties.                                           *)
(***************************************************************************)
DownloadFrame(f) ==
    \E i \in 1..Len(stack) :
        stack[i].fn = "download_and_save_file" /\ stack[i].arg = f

\* main has returned: the run is over, normally or after a logged exception
ScanOver == status \in {"completed", "failed"}

\* the remote is as the current run listed it
AsListed == scans >= 1 /\ ~touched

VersionTimes(rows, f) == {<<r.version, r.modifiedTime>> : r \in RowsOf(rows, f)}

AddedRows(f) == RowsOf(ledger, f) \ RowsOf(ledger0, f)

FetchFailed(f) == seen[f] \in {"http", "exhausted"}

RECURSIVE InSubtree(_, _)
InSubtree(d, top) ==
    IF d = top THEN TRUE
    ELSE IF d = "none" \/ d = "root" THEN FALSE
    ELSE InSubtree(FolderParent(d), top)

\* the rows of f with the highest version the ledger had when the run started
Newest0(f) ==
    {r \in RowsOf(ledger0, f) : \A q \in RowsOf(ledger0, f) : q.version <= r.version}

\* the latest row the ledger had when the run started carries the listed time
RecordedAsListed(f) ==
    Newest0(f) # {} /\ \A r \in Newest0(f) : r.modifiedTime = mtime[f]

ChangedSinceRecorded(f) ==
    Newest0(f) # {} /\ \A r \in Newest0(f) : r.modifiedTime # mtime[f]

Exportable(f) ==
    ~IsGoogleApps(MimeType(f)) \/ ExportExtension(MimeType(f)) # <<>>

(***************************************************************************)
(* C1 (as stated): after a completed scan (here one in which no folder     *)
(* request failed), a second scan over an unchanged remote inserts no row  *)
(* into the files table.                                                   *)
(***************************************************************************)
C1_RescanInsertsNothing ==
    (scans >= 2 /\ ~touched /\ prevScan.completed /\ prevScan.same)
        => ledger = ledger0

(***************************************************************************)
(* C1 (amended): a scan inserts no row for a file whose latest ledger row  *)
(* has the listed modifiedTime; when every exportable file is so recorded, *)
(* the scan leaves the files table as it was.                              *)
(***************************************************************************)
C1_RescanSkipsRecorded ==
    AsListed =>
        /\ \A f \in Files :
              RecordedAsListed(f) => RowsOf(ledger, f) = RowsOf(ledger0, f)
        /\ (\A f \in Files : Exportable(f) => RecordedAsListed(f))
              => ledger = ledger0

C1_Witness ==
    /\ status = "completed" /\ scans >= 2 /\ ~touched
    /\ prevScan.completed /\ prevScan.same
    /\ \A f \in Files : Exportable(f) => seen[f] = "skip"
    /\ ledger = ledger0

(***************************************************************************)
(* C2: the versions stored for every file are exactly 1..k, each once.     *)
(***************************************************************************)
C2_ContiguousVersions ==
    \A f \in Files :
        /\ {r.version : r \in RowsOf(ledger, f)} = 1..MaxVersion(ledger, f)
        /\ Cardinality(RowsOf(ledger, f)) = MaxVersion(ledger, f)

C2_Witness ==
    /\ \E f \in Files : MaxVersion(ledger, f) >= 2
    /\ \E f \in Files : FetchFailed(f)
    /\ \E f \in Files : seen[f] = "skip"

(***************************************************************************)
(* C3 (as stated): a later version of a file has a strictly later          *)
(* modifiedTime.                                                           *)
(***************************************************************************)
C3_VersionsAscendingInTime ==
    \A r1 \in ledger, r2 \in ledger :
        (r1.id = r2.id /\ r1.version < r2.version)
            => r1.modifiedTime < r2.modifiedTime

(***************************************************************************)
(* C3 (amended): consecutive versions of a file have different             *)
(* modifiedTimes, the later one not necessarily the later time.            *)
(***************************************************************************)
C3_ConsecutiveVersionsDiffer ==
    \A r1 \in ledger, r2 \in ledger :
        (r1.id = r2.id /\ r2.version = r1.version + 1)
            => r1.modifiedTime # r2.modifiedTime

C3_Witness ==
    \E r1 \in ledger, r2 \in ledger :
        /\ r1.id = r2.id /\ r2.version = r1.version + 1
        /\ r2.modifiedTime < r1.modifiedTime

(***************************************************************************)
(* C4 (as stated): a scan that lists a file with a modifiedTime other than *)
(* that of its latest row adds exactly one row, version k+1, that time     *)
(* (looked at when the scan has returned normally, with no folder request  *)
(* failed and no retries exhausted).                                       *)
(***************************************************************************)
C4_ChangeAddsOneRow ==
    (status = "completed" /\ ~touched /\ folderFail = {}
        /\ \A g \in Files : seen[g] # "exhausted") =>
        \A f \in Files :
            (ChangedSinceRecorded(f) /\ seen[f] # "no")
                => VersionTimes(AddedRows(f), f)
                       = {<<MaxVersion(ledger0, f) + 1, mtime[f]>>}

(***************************************************************************)
(* C4 (amended): such a file is never skipped as unchanged; it gets        *)
(* exactly one row, version k+1 with the listed time, once its content     *)
(* fetch or export has succeeded and download_and_save_file has returned,  *)
(* and no row when the fetch fails.                                        *)
(***************************************************************************)
C4_ChangeAddsOneRowWhenFetched ==
    AsListed =>
        \A f \in Files :
            ChangedSinceRecorded(f) =>
                /\ seen[f] # "skip"
                /\ Cardinality(AddedRows(f)) <= 1
                /\ VersionTimes(AddedRows(f), f)
                       \subseteq {<<MaxVersion(ledger0, f) + 1, mtime[f]>>}
                /\ (seen[f] = "ok" /\ ~DownloadFrame(f)) => AddedRows(f) # {}
                /\ seen[f] # "ok" => AddedRows(f) = {}

\* the third version carries the time of the first, not of the latest
C4_Witness ==
    /\ AsListed
    /\ \E f \in Files :
          /\ VersionTimes(ledger0, f) = {<<1, 1>>, <<2, 2>>}
          /\ VersionTimes(AddedRows(f), f) = {<<3, 1>>}

(***************************************************************************)
(* C5 (as stated): when the only failures of a scan are content fetches or *)
(* exports of files, every listed file of every folder is still processed. *)
(***************************************************************************)
C5_FileFailureKeepsScanGoing ==
    (ScanOver /\ folderFail = {} /\ (\E f \in Files : FetchFailed(f)))
        => \A g \in Files : seen[g] # "no"

(***************************************************************************)
(* C6: every ledger row names a file written to completion before the row  *)
(* was committed, and a failed or unsupported fetch adds no row.           *)
(***************************************************************************)
C6_RowsHaveCompleteFiles ==
    /\ \A r \in ledger : r.localPath \in written
    /\ \A f \in Files :
          seen[f] \in {"fetching", "http", "exhausted", "unsup"}
              => AddedRows(f) = {}

\* killed between the write of the file and the insert of its row
C6_Witness ==
    /\ status = "killed"
    /\ Top.fn = "download_and_save_file" /\ Top.pc = "insert"
    /\ Top.path \in written
    /\ \A r \in ledger : r.localPath # Top.path
    /\ \E f \in Files : seen[f] = "http" /\ AddedRows(f) = {}

(***************************************************************************)
(* C7 (as stated): when the metadata fetch or a listing of one folder      *)
(* fails, the files outside that folder's subtree are still processed.     *)
(***************************************************************************)
C7_FolderFailureScoped ==
    (ScanOver /\ \A f \in Files : ~FetchFailed(f)) =>
        \A d \in Folders :
            folderFail = {d} =>
                \A g \in Files : ~InSubtree(FileParent(g), d) => seen[g] # "no"

(***************************************************************************)
(* C8: a remote call is attempted at most 3 times, also below the wrapper  *)
(* of create_folder_structure, which never runs its body a second time;    *)
(* a successful attempt ends the call.                                     *)
(***************************************************************************)
C8_AtMostThreeAttempts ==
    /\ last.n <= 3
    /\ \A i \in 1..Len(stack) : stack[i].attempt <= 3
    /\ \A i \in 1..Len(stack) :
          stack[i].fn = "create_folder_structure" => stack[i].attempt = 1
    /\ last.out = "ok" => last.act = "return"
    /\ ~last.afterOk

\* the third transient failure of a metadata fetch two levels down
C8_Witness ==
    /\ last.n = 3 /\ last.act = "exhausted" /\ last.site = <<"C", "get">>
    /\ Len(stack) >= 3
    /\ stack[Len(stack)].fn = "create_folder_structure"
    /\ stack[Len(stack) - 1].fn = "create_folder_structure"
    /\ stack[Len(stack) - 2].fn = "create_folder_structure"

(***************************************************************************)
(* C9: an HttpError ends the call at once: it is raised as it is, without  *)
(* a wait, and the call is not attempted again.                            *)
(***************************************************************************)
C9_HttpErrorNotRetried ==
    /\ last.out = "http" =>
          (last.act = "raise" /\ last.err = "HttpError" /\ raised \in {"HttpError", "none"})
    /\ ~last.afterHttp

C9_Witness ==
    /\ last.out = "http" /\ last.n = 1 /\ raised = "HttpError"
    /\ Top.fn = "create_folder_structure"

(***************************************************************************)
(* C10 (as stated): after the last of 3 transient failures the error       *)
(* raised to the caller is of the kind of that last failure.               *)
(***************************************************************************)
C10_ExhaustionKeepsKind ==
    last.act = "exhausted" => last.err = ExcOf(last.out)

(***************************************************************************)
(* C11 (as stated): the process exits with status 0 when the scan          *)
(* completes and with a status other than 0 when an error escaped          *)
(* backup_drive.                                                           *)
(***************************************************************************)
C11_ExitStatusTellsFailure ==
    /\ status = "completed" => exitStatus = 0
    /\ status = "failed" => exitStatus > 0

(***************************************************************************)
(* C12: the ledger connection is open only while backup_drive is active:   *)
(* it is closed when backup_drive has returned or raised, whether the      *)
(* traversal completed, a failure was logged inside it, or an exception    *)
(* left the traversal or the creation of the backup directory.             *)
(***************************************************************************)
BackupDriveActive == \E i \in 1..Len(stack) : stack[i].fn = "backup_drive"

C12_LedgerClosedOnExit == ~BackupDriveActive => ~connOpen

\* an exception of the traversal has left backup_drive, after rows were added
C12_Witness ==
    /\ Running("main") /\ raised = "RetryError"
    /\ ledger # ledger0
    /\ ~connOpen

(***************************************************************************)
(* C13 (as stated): the rows of table files have pairwise distinct         *)
(* localPath, so no version is written over the stored file of another     *)
(* row, also when two files of one folder have the same name.              *)
(***************************************************************************)
C13_DistinctLocalPaths ==
    \A r1 \in ledger, r2 \in ledger : r1 # r2 => r1.localPath # r2.localPath

(***************************************************************************)
(* C14 (as stated): the last component of every recorded localPath has     *)
(* none of the characters that sanitize_filename replaces.                 *)
(***************************************************************************)
LastComponent(p) == SubSeq(p, LastIndexOf(p, "/") + 1, Len(p))

C14_SanitizedFileNames ==
    \A r \in ledger :
       \A i \in 1..Len(LastComponent(r.localPath)) :
          LastComponent(r.localPath)[i] \notin InvalidChars

(***************************************************************************)
(* C15: the path built for name and version n is the name itself under     *)
(* the folder when n = 1, and the name with ".v" and n in at least two     *)
(* decimal digits put in just before its extension when n > 1; the export  *)
(* extension of a Google file follows; the row records this path with      *)
(* version n.                                                              *)
(***************************************************************************)
RECURSIVE DigitsValue(_)
DigitsValue(ds) ==
    IF Len(ds) = 0 THEN 0
    ELSE 10 * DigitsValue(SubSeq(ds, 1, Len(ds) - 1))
           + (CHOOSE k \in 0..9 : DigitChars[k + 1] = ds[Len(ds)])

\* ds writes n in decimal, padded with zeros to two digits
TwoDigits(ds, n) ==
    /\ Len(ds) >= 2
    /\ \A i \in 1..Len(ds) : \E k \in 1..10 : DigitChars[k] = ds[i]
    /\ DigitsValue(ds) = n
    /\ Len(ds) > 2 => ds[1] # "0"

\* the extension of name is what follows position k: a last dot of the last
\* component that has a character other than a dot before it, or nothing
ExtensionAfter(name, k) ==
    LET IsExt(j) ==
            /\ j < Len(name) /\ name[j + 1] = "."
            /\ \A i \in (j + 2)..Len(name) : name[i] \notin {".", "/"}
            /\ j >= 1 /\ name[j] # "/"
            /\ \E i \in 1..j : name[i] # "." /\ (\A h \in i..j : name[h] # "/")
    IN IF \E j \in 0..Len(name) : IsExt(j) THEN IsExt(k) ELSE k = Len(name)

Under(dir, rel) == dir \o <<"/">> \o rel

NamedAsVersion(path, name, n, mime) ==
    IF n = 1 THEN path = Under(BackupDir, name \o ExportExtension(mime))
    ELSE \E k \in 0..Len(name) : \E len \in 2..3 :
           /\ ExtensionAfter(name, k)
           /\ Len(path) = Len(BackupDir) + 1 + Len(name) + 2 + len
                             + Len(ExportExtension(mime))
           /\ LET at == Len(BackupDir) + 1 + k
              IN /\ path = Under(BackupDir,
                                 SubSeq(name, 1, k) \o <<".", "v">>
                                    \o SubSeq(path, at + 3, at + 2 + len)
                                    \o SubSeq(name, k + 1, Len(name))
                                    \o ExportExtension(mime))
                 /\ TwoDigits(SubSeq(path, at + 3, at + 2 + len), n)

C15_VersionedPathNaming ==
    probe.path # <<>> =>
       /\ NamedAsVersion(probe.path, probe.name, probe.version, probe.mime)
       /\ probe.row.localPath = probe.path
       /\ probe.row.version = probe.version

\* the spreadsheet "S" at version 2
C15_Witness ==
    /\ probe.name = <<"S">> /\ probe.mime = "gsheet" /\ probe.version = 2
    /\ probe.path = <<"b", "k", "/", "S", ".", "v", "0", "2", ".", "x", "l", "s", "x">>

(***************************************************************************)
(* C16 (as stated): a listed file that lacks a field does not end the      *)
(* scan, which returns normally; and a file listed without "parents" is    *)
(* recorded with a null parentId.                                          *)
(***************************************************************************)
C16_MissingFieldKeepsScanGoing ==
    /\ (ScanOver /\ \E f \in Files : seen[f] = "keyerror") => status = "completed"
    /\ \A r \in ledger : ~HasParents(r.id) => r.parentId = "none"

(***************************************************************************)
(* C17 (as stated): the KeyError of a subfolder entry without id or name   *)
(* in the listing of folder F, below the root, goes no further than the    *)
(* call for the parent of F: the scan is not ended by it, and the rows     *)
(* added before it stay.                                                   *)
(***************************************************************************)
C17_MalformedListingOneLevel ==
    /\ badEntry \notin {"none", "root"} =>
          /\ status # "failed"
          /\ raised # "none" =>
                \E i \in 1..Len(stack) :
                   stack[i].arg \in {badEntry, FolderParent(badEntry)}
    /\ \A r \in ledger0 : r \in ledger

(***************************************************************************)
(* C18: when download_and_save_file has been called for a file of folder F *)
(* in this run, the directory of F exists and the FolderRecord of F was    *)
(* upserted in this run; and when it has been called for a file of a       *)
(* folder below F, it has been called and has ended for every file of F.   *)
(***************************************************************************)
RECURSIVE LocalDir(_)
LocalDir(d) ==
    IF d = "root" THEN BackupDir
    ELSE Under(LocalDir(FolderParent(d)), sanitize_filename(FolderName(d)))

Reached(f) == seen[f] # "no"

C18_PreOrder ==
    /\ \A f \in Files :
          Reached(f) =>
             /\ FileParent(f) \in upserted
             /\ LocalDir(FileParent(f)) \in dirs
             /\ \E r \in folders : r.id = FileParent(f)
    /\ \A f \in Files, g \in Files :
          (/\ FileParent(g) # FileParent(f)
           /\ InSubtree(FileParent(g), FileParent(f))
           /\ Reached(g))
             => Reached(f) /\ ~DownloadFrame(f)

\* first run: the spreadsheet of A is being fetched after both files of the
\* root were handled
C18_Witness ==
    /\ scans = 1 /\ seen["f3"] = "fetching"
    /\ seen["f1"] = "ok" /\ seen["f2"] = "unsup"
    /\ upserted = Folders

(***************************************************************************)
(* C19 (as stated): after a run that returned normally and in which no     *)
(* remote call failed, every file of the tree of a type that is downloaded *)
(* or exported has a latest row with its remote modifiedTime, into however *)
(* many pages the listings were split.                                     *)
(***************************************************************************)
ListedAsExportable(f) ==
    ~IsGoogleApps(ListedMimeType(f)) \/ ExportExtension(ListedMimeType(f)) # <<>>

NoCallFailed == folderFail = {} /\ \A f \in Files : ~FetchFailed(f)

C19_CompleteCoverage ==
    (status = "completed" /\ AsListed /\ NoCallFailed) =>
       \A f \in Files :
          ListedAsExportable(f) =>
             \E r \in RowsOf(ledger, f) :
                /\ r.modifiedTime = mtime[f]
                /\ \A q \in RowsOf(ledger, f) : q.version <= r.version

(***************************************************************************)
(* C20: a run that has started comes to its end: backup_drive has returned *)
(* or raised and the ledger connection is closed.                          *)
(***************************************************************************)
C20_ScanTerminates ==
    (status = "running") ~> (ScanOver /\ ~BackupDriveActive /\ ~connOpen)

\* a run has ended after a remote call failed three times
C20_Witness ==
    /\ ScanOver /\ ~connOpen
    /\ last.n = 3 /\ last.act = "exhausted"

====
